---- MODULE Spec2Model ----
(***************************************************************************)
(* State-machine model of the request wrapper of src/core/request:        *)
(*   index.ts  replacePathVariables, isTokenExpired,                      *)
(*             isRefreshTokenExpired, request                              *)
(*   token.ts  getToken, setToken, deleteToken                             *)
(*                                                                         *)
(* A request call is an async function: it runs synchronously up to an     *)
(* await, so one action is one synchronous run of the function between     *)
(* two suspension points (await axios(...), await refreshToken(...)).      *)
(*                                                                         *)
(* JavaScript values: the numbers that are only compared with numbers      *)
(* (Date.now(), the expiry stamps, response.status) are naturals; every    *)
(* other value is a string, the value undefined being "undefined" and the  *)
(* number 401 of errorCode being "401"; an absent property of an object    *)
(* is a field outside the DOMAIN of the record.  String literals of the    *)
(* source that are not ASCII are written in English, the original beside   *)
(* them.                                                                   *)
(***************************************************************************)
EXTENDS Naturals, Sequences, FiniteSets, TLC

VARIABLES
    now,            \* Date.now()
    store,          \* localStorage item 'token': NoItem or the JSON text
    issued,         \* tokens the refresh endpoint has issued so far
    calls,          \* per request call: its position and its locals
    url,            \* replacePathVariables: argument url
    pathVariables,  \* replacePathVariables: argument pathVariables
    requestUrl,     \* replacePathVariables: its result
    ppc             \* replacePathVariables: "ready", "returned"; "unused" in Spec

vars == <<now, store, issued, calls, url, pathVariables, requestUrl, ppc>>

-----------------------------------------------------------------------------
(* Bounds *)

\* Date.now() advances from 1 up to MaxNow.
MaxNow == 2
\* A call issues at most MaxDispatch dispatches (the first and its retries).
MaxDispatch == 3
\* The URL templates of the substitution check have at most MaxUrlLen characters.
MaxUrlLen == 6

\* A count of dispatches or of refresh calls, one more: the model stops
\* counting at MaxDispatch (never reached where a retry needs
\* dispatches < MaxDispatch; reached only by a call that retries for ever).
Counted(n) == IF n < MaxDispatch THEN n + 1 ELSE n

-----------------------------------------------------------------------------
(* JavaScript values *)

Undefined == "undefined"

\* The object {} : no own property.
EmptyObj == [f \in {} |-> Undefined]

\* ToBoolean of an object: every object is truthy, {} included.
TruthyObject(obj) == TRUE

\* `${undefined}`
UndefinedText == <<"undefined", 0>>

\* x || d on strings: undefined and '' are falsy.
OrElse(x, d) == IF x = Undefined \/ x = "" THEN d ELSE x

\* a > obj.field : a comparison with undefined (NaN) is false.
GtField(a, obj, field) == field \in DOMAIN obj /\ a > obj[field]

\* `${obj.field}` : an absent property prints as "undefined".
FieldText(obj, field) ==
    IF field \in DOMAIN obj THEN obj[field] ELSE UndefinedText

-----------------------------------------------------------------------------
(* Token records and the token store, token.ts *)

\* The expiry stamps a token may carry.
ExpiryTimes == {0, 1, 2}

\* InternalToken.Token number n.
Token(n, accessExpiredAt, refreshExpiredAt) ==
    [access |-> <<"access", n>>, refresh |-> <<"refresh", n>>,
     accessExpiredAt |-> accessExpiredAt, refreshExpiredAt |-> refreshExpiredAt]

\* localStorage.getItem('token') of an absent item: null.
NoItem == <<"null">>

\* JSON.stringify(token)
Stringify(token) == <<"json", token>>

\* JSON.parse(tokenStr)
Parse(tokenStr) == tokenStr[2]

\* getToken: tokenStr ? JSON.parse(tokenStr) : {}
getToken(item) == IF item = NoItem THEN EmptyObj ELSE Parse(item)

setTokenDropped(token) == store

\* setToken: the item after localStorage.setItem('token', JSON.stringify(token))
setToken(token) == Stringify(token)

deleteTokenKept == store

\* deleteToken: the item after localStorage.removeItem('token')
deleteToken == NoItem

-----------------------------------------------------------------------------
(* Expiry predicates, index.ts 87-97; t is Date.now() *)

isTokenExpiredInclusive(token, t) ==
    \/ (("accessExpiredAt" \in DOMAIN token) /\ t >= token.accessExpiredAt)
    \/ (("refreshExpiredAt" \in DOMAIN token) /\ t >= token.refreshExpiredAt)

isTokenExpired(token, t) ==
    GtField(t, token, "accessExpiredAt") \/ GtField(t, token, "refreshExpiredAt")

isRefreshTokenExpiredByAccess(token, t) == GtField(t, token, "accessExpiredAt")

isRefreshTokenExpired(token, t) == GtField(t, token, "refreshExpiredAt")

-----------------------------------------------------------------------------
(* replacePathVariables, index.ts 71-85.  A string is a sequence of         *)
(* one-character strings; pathVariables is the sequence of its own          *)
(* enumerable <<key, value>> entries in for-in order (String(value)).       *)

\* [a-zA-Z0-9_]
IdChars == {"a", "b", "1", "2"}

UrlChars == {"/", ":"} \cup {"a", "b"}

\* The length of the longest run of identifier characters of s from index i.
RECURSIVE IdRun(_, _)
IdRun(s, i) ==
    IF i <= Len(s) /\ s[i] \in IdChars THEN 1 + IdRun(s, i + 1) ELSE 0

\* s.replace(/:([a-zA-Z0-9_]+)/g, value) from index i on: every match, a
\* colon and the longest run of one or more identifier characters after it,
\* becomes value (which holds no $ pattern); the rest is copied.
RECURSIVE ReplaceAll(_, _, _)
ReplaceAll(s, i, value) ==
    IF i > Len(s) THEN << >>
    ELSE IF s[i] = ":" /\ IdRun(s, i + 1) > 0
         THEN value \o ReplaceAll(s, i + 1 + IdRun(s, i + 1), value)
         ELSE <<s[i]>> \o ReplaceAll(s, i + 1, value)

\* The loop of lines 76-83 from entry k on, requestUrl being acc: each
\* iteration assigns url.replace(...), a replacement in the ARGUMENT url.
RECURSIVE ReplaceLoop(_, _, _, _)
ReplaceLoop(u, pv, k, acc) ==
    IF k > Len(pv) THEN acc
    ELSE ReplaceLoop(u, pv, k + 1, ReplaceAll(u, 1, pv[k][2]))

replacePathVariables(u, pv) == ReplaceLoop(u, pv, 1, u)

-----------------------------------------------------------------------------
(* Messages, index.ts *)

\* '请求失败' (142, 195)
MsgRequestFailed == "request failed"
\* '刷新令牌已过期，请重新登录' (154)
ToastRefreshExpired == "refresh token expired, log in again"
\* '刷新令牌已过期' (157, 162)
MsgRefreshExpired == "refresh token expired"
\* '刷新令牌失败，请重新登录' (178)
ToastRefreshFailed == "refresh failed, log in again"
\* '刷新令牌失败' (186)
MsgRefreshFailed == "refresh failed"

-----------------------------------------------------------------------------
(* Errors, transport results, refresh results, outcomes *)

\* new Error(message): no response, no code.
NewError(message) ==
    [hasResponse |-> FALSE, status |-> 0, serverMessage |-> Undefined,
     code |-> Undefined, message |-> message]

\* The AxiosError of a response the transport rejects: error.response.status,
\* error.response.data.message, error.code, error.message.
AxiosError(status, serverMessage) ==
    [hasResponse |-> TRUE, status |-> status, serverMessage |-> serverMessage,
     code |-> IF status >= 500 THEN "ERR_BAD_RESPONSE" ELSE "ERR_BAD_REQUEST",
     message |-> "Request failed with status code"]

\* The AxiosError of a request that got no response.
NetworkError ==
    [hasResponse |-> FALSE, status |-> 0, serverMessage |-> Undefined,
     code |-> "ERR_NETWORK", message |-> "Network Error"]

\* What await axios(...) can produce (129-133): a response of a status the
\* transport's validateStatus accepts (2xx), or a rejection.
AxiosResults ==
    {[kind |-> "resolved", status |-> 200, data |-> d, errorMessage |-> Undefined]
        : d \in {"d1", "d2", Undefined}}
    \cup {[kind |-> "resolved", status |-> 204, data |-> Undefined, errorMessage |-> m]
        : m \in {"no content", "", Undefined}}
    \cup {[kind |-> "rejected", error |-> AxiosError(s, m)]
        : s \in {401, 500}, m \in {"denied", Undefined}}
    \cup {[kind |-> "rejected", error |-> NetworkError]}

\* What await refreshToken(...) can produce (166-168) when n tokens were
\* issued before: {success: true, data: a new token}, {success: false},
\* undefined, or a rejection.
RefreshResults(n) ==
    {[kind |-> "resolved", truthy |-> TRUE, success |-> TRUE, data |-> Token(n + 1, a, r)]
        : a \in ExpiryTimes, r \in ExpiryTimes}
    \cup {[kind |-> "resolved", truthy |-> TRUE, success |-> FALSE, data |-> EmptyObj],
          [kind |-> "resolved", truthy |-> FALSE, success |-> FALSE, data |-> EmptyObj],
          [kind |-> "rejected", error |-> NewError("refresh rejected")]}

\* The promise of a call: pending, resolved with an envelope, or rejected.
Pending == [kind |-> "pending"]
Rejected(error) == [kind |-> "rejected", error |-> error]
Success(data) == [kind |-> "resolved", success |-> TRUE, data |-> data]
FailureEnvelope(errorCode, errorMessage) ==
    [kind |-> "resolved", success |-> FALSE, errorCode |-> errorCode,
     errorMessage |-> errorMessage]

-----------------------------------------------------------------------------
(* request, index.ts 98-209 *)

Calls == {"A", "B"}

\* The descriptors: the three flags, the URL template and the optional
\* pathVariables (given = FALSE: the property is absent).
NoPathVariables == [given |-> FALSE, entries |-> << >>]
UrlCases ==
    {[url |-> <<"/", "a">>, pathVariables |-> NoPathVariables],
     [url |-> <<"/", ":", "a">>,
      pathVariables |-> [given |-> TRUE, entries |-> << <<"a", <<"1">> >> >>]]}
Descriptors ==
    {[ignoreAuth |-> i, silentError |-> s, throwError |-> t,
      url |-> u.url, pathVariables |-> u.pathVariables]
        : i \in BOOLEAN, s \in BOOLEAN, t \in BOOLEAN, u \in UrlCases}

NoArgs ==
    [ignoreAuth |-> FALSE, silentError |-> FALSE, throwError |-> FALSE,
     url |-> << >>, pathVariables |-> NoPathVariables]

\* A call that has not been made: no local is set.
IdleCall ==
    [pc |-> "idle", args |-> NoArgs, token |-> EmptyObj, headers |-> EmptyObj,
     requestUrl |-> << >>, dispatches |-> 0, response |-> Pending,
     error |-> NewError(Undefined), currentToken |-> EmptyObj, refreshes |-> 0,
     refreshArg |-> UndefinedText, newToken |-> Pending, shown |-> << >>,
     outcome |-> Pending]

AuthHeadersAlways(token, ignoreAuth) ==
    [Authorization |-> <<"Bearer", FieldText(token, "access")>>]

\* 117-122: config.headers after the credential is attached.
AuthHeaders(token, ignoreAuth) ==
    IF TruthyObject(token) /\ ~ignoreAuth
    THEN [Authorization |-> <<"Bearer", FieldText(token, "access")>>]
    ELSE EmptyObj

InvokeWithTokenKept(call, args, item) ==
    LET token == IF call.dispatches = 0 THEN getToken(item) ELSE call.token
    IN  [call EXCEPT
            !.pc = "axios",
            !.args = args,
            !.token = token,
            !.headers = AuthHeaders(token, args.ignoreAuth),
            !.requestUrl =
                IF args.pathVariables.given
                THEN replacePathVariables(args.url, args.pathVariables.entries)
                ELSE args.url,
            !.dispatches = Counted(@)]

\* 107-133: request(args) up to await axios(...), the item being in the store.
\* A retry (172) is this same run, with fresh locals; the promise of the call
\* is resolved with the promise of the retry, so the retry's outcome is the
\* call's.
Invoke(call, args, item) ==
    LET token == getToken(item)
    IN  [call EXCEPT
            !.pc = "axios",
            !.args = args,
            !.token = token,
            !.headers = AuthHeaders(token, args.ignoreAuth),
            !.requestUrl =
                IF args.pathVariables.given
                THEN replacePathVariables(args.url, args.pathVariables.entries)
                ELSE args.url,
            !.dispatches = Counted(@)]

showErrorUnlessThrow(shown, args, message) ==
    IF ~args.throwError THEN Append(shown, message) ELSE shown

\* if (!silentError) defaultErrorHandler.showError(message)
showError(shown, args, message) ==
    IF ~args.silentError THEN Append(shown, message) ELSE shown

FailAlwaysReturn(args, error, envelope) == envelope

\* if (throwError) throw error; return envelope
Fail(args, error, envelope) ==
    IF args.throwError THEN Rejected(error) ELSE envelope

\* 192-207: generic failure reporting of the caught error.
GenericFailure(call, error) ==
    [call EXCEPT
        !.pc = "done",
        !.shown = showError(@, call.args,
                            OrElse(error.serverMessage, MsgRequestFailed)),
        !.outcome = Fail(call.args, error,
                         FailureEnvelope(error.code, error.message))]

RefreshArgumentOfSentToken(call, currentToken) == FieldText(call.token, "refresh")

\* 166-168: the refreshToken property of the argument of refreshToken.
RefreshArgument(call, currentToken) == currentToken.refresh

CatchAnyStatus(call0, error, item, t) ==
    LET call == [call0 EXCEPT !.error = error]
    IN  IF error.hasResponse /\ ~call.args.ignoreAuth
        THEN LET currentToken == getToken(item)
                 read == [call EXCEPT !.currentToken = currentToken]
             IN  IF TruthyObject(currentToken) /\ isTokenExpired(currentToken, t)
                 THEN IF isRefreshTokenExpired(currentToken, t)
                      THEN [item |-> deleteToken,
                            call |-> [read EXCEPT
                               !.pc = "done",
                               !.shown = showError(@, call.args, ToastRefreshExpired),
                               !.outcome =
                                  Fail(call.args, NewError(MsgRefreshExpired),
                                       FailureEnvelope("401", MsgRefreshExpired))]]
                      ELSE [item |-> item,
                            call |-> [read EXCEPT
                               !.pc = "refresh",
                               !.refreshArg = RefreshArgument(read, currentToken),
                               !.refreshes = Counted(@)]]
                 ELSE [item |-> item, call |-> GenericFailure(read, error)]
        ELSE [item |-> item, call |-> GenericFailure(call, error)]

CatchOnSentToken(call0, error, item, t) ==
    LET call == [call0 EXCEPT !.error = error]
    IN  IF error.hasResponse /\ error.status = 401 /\ ~call.args.ignoreAuth
        THEN LET currentToken == call.token
                 read == [call EXCEPT !.currentToken = currentToken]
             IN  IF TruthyObject(currentToken) /\ isTokenExpired(currentToken, t)
                 THEN IF isRefreshTokenExpired(currentToken, t)
                      THEN [item |-> deleteToken,
                            call |-> [read EXCEPT
                               !.pc = "done",
                               !.shown = showError(@, call.args, ToastRefreshExpired),
                               !.outcome =
                                  Fail(call.args, NewError(MsgRefreshExpired),
                                       FailureEnvelope("401", MsgRefreshExpired))]]
                      ELSE [item |-> item,
                            call |-> [read EXCEPT
                               !.pc = "refresh",
                               !.refreshArg = RefreshArgument(read, currentToken),
                               !.refreshes = Counted(@)]]
                 ELSE [item |-> item, call |-> GenericFailure(read, error)]
        ELSE [item |-> item, call |-> GenericFailure(call, error)]

\* 144-208: the catch block for the caught error at time t, the item being
\* in the store: the call and the item after it, up to await refreshToken.
\* The two Date.now() reads (89, 95) belong to this one synchronous run: a
\* clock that crosses refreshExpiredAt between them gives the result of the
\* whole run at the later time, so one t stands for both.
Catch(call0, error, item, t) ==
    LET call == [call0 EXCEPT !.error = error]
    IN  IF error.hasResponse /\ error.status = 401 /\ ~call.args.ignoreAuth
        THEN LET currentToken == getToken(item)
                 read == [call EXCEPT !.currentToken = currentToken]
             IN  IF TruthyObject(currentToken) /\ isTokenExpired(currentToken, t)
                 THEN IF isRefreshTokenExpired(currentToken, t)
                      THEN [item |-> deleteToken,
                            call |-> [read EXCEPT
                               !.pc = "done",
                               !.shown = showError(@, call.args, ToastRefreshExpired),
                               !.outcome =
                                  Fail(call.args, NewError(MsgRefreshExpired),
                                       FailureEnvelope("401", MsgRefreshExpired))]]
                      ELSE [item |-> item,
                            call |-> [read EXCEPT
                               !.pc = "refresh",
                               !.refreshArg = RefreshArgument(read, currentToken),
                               !.refreshes = Counted(@)]]
                 ELSE [item |-> item, call |-> GenericFailure(read, error)]
        ELSE [item |-> item, call |-> GenericFailure(call, error)]

IsOkAny2xx(status) == status >= 200 /\ status < 300

\* 135: response.status === 200
IsOk(status) == status = 200

\* 135-143 and the catch block: the run after await axios(...) produced
\* response.
AfterAxios(call, response, item, t) ==
    LET c == [call EXCEPT !.response = response]
    IN  IF response.kind = "resolved"
        THEN IF IsOk(response.status)
             THEN [item |-> item,
                   call |-> [c EXCEPT !.pc = "done",
                                      !.outcome = Success(response.data)]]
             ELSE Catch(c, NewError(OrElse(response.errorMessage, MsgRequestFailed)),
                        item, t)
        ELSE Catch(c, response.error, item, t)

\* 169-188 and 192-207: the run after await refreshToken(...) produced
\* newToken.
AfterRefresh(call0, newToken, item) ==
    LET call == [call0 EXCEPT !.newToken = newToken]
    IN
    IF newToken.kind = "resolved"
    THEN IF newToken.truthy /\ newToken.success
         THEN [item |-> setToken(newToken.data),
               call |-> Invoke(call, call.args, setToken(newToken.data))]
         ELSE [item |-> item, call |-> GenericFailure(call, call.error)]
    ELSE [item |-> deleteToken,
          call |-> [call EXCEPT
             !.pc = "done",
             !.shown = showError(@, call.args, ToastRefreshFailed),
             !.outcome = Fail(call.args, newToken.error,
                              FailureEnvelope("401", MsgRefreshFailed))]]

-----------------------------------------------------------------------------
(* Actions *)

pathUnchanged == UNCHANGED <<url, pathVariables, requestUrl, ppc>>

\* Date.now() advances.
Tick ==
    /\ now < MaxNow
    /\ now' = now + 1
    /\ UNCHANGED <<store, issued, calls>>
    /\ pathUnchanged

\* A caller calls request(args): 107-133.
Request(c, args) ==
    /\ calls[c].pc = "idle"
    /\ calls' = [calls EXCEPT ![c] = Invoke(@, args, store)]
    /\ UNCHANGED <<now, store, issued>>
    /\ pathUnchanged

\* await axios(...) produces response: 135-208 up to the next await.
AxiosSettles(c, response) ==
    /\ calls[c].pc = "axios"
    /\ LET after == AfterAxios(calls[c], response, store, now)
       IN  /\ calls' = [calls EXCEPT ![c] = after.call]
           /\ store' = after.item
    /\ UNCHANGED <<now, issued>>
    /\ pathUnchanged

\* The refresh endpoint issues a token: the tokens are numbered up to
\* MaxDispatch for each call.
Issue(n) == IF n < Cardinality(Calls) * MaxDispatch THEN n + 1 ELSE n

\* await refreshToken(...) produces newToken: 169-208.
RefreshReturns(c, newToken) ==
    /\ calls[c].pc = "refresh"
    /\ LET after == AfterRefresh(calls[c], newToken, store)
       IN  /\ calls' = [calls EXCEPT ![c] = after.call]
           /\ store' = after.item
    /\ issued' = IF newToken.kind = "resolved" /\ newToken.success
                 THEN Issue(issued) ELSE issued
    /\ UNCHANGED now
    /\ pathUnchanged

\* The same, a call that has issued MaxDispatch dispatches being given no
\* further token.
RefreshSettles(c, newToken) ==
    /\ (newToken.kind = "resolved" /\ newToken.success)
          => calls[c].dispatches < MaxDispatch
    /\ RefreshReturns(c, newToken)

\* The items the store may hold when the first call is made: none (never
\* set, or deleted), or the token a login stored.
InitialItems ==
    {NoItem} \cup {Stringify(Token(0, a, r)) : a \in ExpiryTimes, r \in ExpiryTimes}

InitRequest ==
    /\ now = 1
    /\ store \in InitialItems
    /\ issued = 0
    /\ calls = [c \in Calls |-> IdleCall]

Init ==
    /\ InitRequest
    /\ url = << >>
    /\ pathVariables = << >>
    /\ requestUrl = << >>
    /\ ppc = "unused"

\* One request call, A.
Next ==
    \/ Tick
    \/ \E args \in Descriptors : Request("A", args)
    \/ \E response \in AxiosResults : AxiosSettles("A", response)
    \/ \E newToken \in RefreshResults(issued) : RefreshSettles("A", newToken)

Spec == Init /\ [][Next]_vars

\* The calls A and B, made and run in any order.  Their descriptors have
\* ignoreAuth and throwError unset and no pathVariables; the transport
\* answers 200 or 401; the refresh endpoint issues a token whose access is
\* already expired or not, answers {success: false}, or rejects.
ConcDescriptors ==
    {d \in Descriptors : ~d.ignoreAuth /\ ~d.throwError /\ ~d.pathVariables.given}

ConcAxiosResults ==
    {r \in AxiosResults :
        \/ r.kind = "resolved" /\ r.status = 200 /\ r.data = "d1"
        \/ r.kind = "rejected" /\ r.error.hasResponse /\ r.error.status = 401
              /\ r.error.serverMessage = Undefined}

ConcRefreshResults(n) ==
    {r \in RefreshResults(n) :
        (r.kind = "resolved" /\ r.success) =>
            (r.data.refreshExpiredAt = 2 /\ r.data.accessExpiredAt \in {0, 2})}

NextConc ==
    \/ Tick
    \/ \E c \in Calls, args \in ConcDescriptors : Request(c, args)
    \/ \E c \in Calls, response \in ConcAxiosResults : AxiosSettles(c, response)
    \/ \E c \in Calls, newToken \in ConcRefreshResults(issued) :
            RefreshSettles(c, newToken)

SpecConc == Init /\ [][NextConc]_vars

\* The calls A and B in flight together while the store holds a token whose
\* access is expired and whose refresh is not: both are dispatched before any
\* response arrives.
AllInFlight == \A c \in Calls : calls[c].pc # "idle"

InitStorm ==
    /\ Init
    /\ store \in {Stringify(Token(0, 0, r)) : r \in {1, 2}}

NextStorm ==
    \/ Tick
    \/ \E c \in Calls, args \in ConcDescriptors : Request(c, args)
    \/ \E c \in Calls, response \in ConcAxiosResults :
            AllInFlight /\ AxiosSettles(c, response)
    \/ \E c \in Calls, newToken \in ConcRefreshResults(issued) :
            RefreshSettles(c, newToken)

SpecStorm == InitStorm /\ [][NextStorm]_vars

\* One request call, A, with no bound on its retries, every await of which
\* completes: the transport call and the refresh call each produce a result
\* in the end.
NextLive ==
    \/ Tick
    \/ \E args \in Descriptors : Request("A", args)
    \/ \E response \in AxiosResults : AxiosSettles("A", response)
    \/ \E newToken \in RefreshResults(issued) : RefreshReturns("A", newToken)

SpecLive ==
    /\ Init
    /\ [][NextLive]_vars
    /\ WF_vars(\E response \in AxiosResults : AxiosSettles("A", response))
    /\ WF_vars(\E newToken \in RefreshResults(issued) : RefreshReturns("A", newToken))

-----------------------------------------------------------------------------
(* replacePathVariables on its own: every template of at most MaxUrlLen     *)
(* characters, every map of the keys a and b.                               *)

Urls == UNION {[1..n -> UrlChars] : n \in 0..MaxUrlLen}

PathKeys == {<<"a">>, <<"b">>}
PathValues == {<<"1">>, <<"2">>}

\* The maps, as entries in for-in order: the keys are distinct.
PathMaps ==
    {<< >>}
    \cup {<< <<k, v>> >> : k \in PathKeys, v \in PathValues}
    \cup UNION {{<< <<k1, v1>>, <<k2, v2>> >> :
                    k2 \in PathKeys \ {k1}, v1 \in PathValues, v2 \in PathValues}
                 : k1 \in PathKeys}

InitPath ==
    /\ now = 1
    /\ store = NoItem
    /\ issued = 0
    /\ calls = [c \in Calls |-> IdleCall]
    /\ url \in Urls
    /\ pathVariables \in PathMaps
    /\ requestUrl = << >>
    /\ ppc = "ready"

\* replacePathVariables(url, pathVariables) returns.
Substitute ==
    /\ ppc = "ready"
    /\ requestUrl' = replacePathVariables(url, pathVariables)
    /\ ppc' = "returned"
    /\ UNCHANGED <<now, store, issued, calls, url, pathVariables>>

NextPath == Substitute

SpecPath == InitPath /\ [][NextPath]_vars

-----------------------------------------------------------------------------
(* Vocabulary of the properties *)

\* await axios(...) of call c produces its result in this step.
AxiosSettled(c) == calls[c].pc = "axios" /\ calls'[c].pc # "axios"

\* await refreshToken(...) of call c produces its result in this step.
RefreshSettled(c) == calls[c].pc = "refresh" /\ calls'[c].pc # "refresh"

\* The transport rejected with a response of status 401.
Is401(response) ==
    /\ response.kind = "rejected"
    /\ response.error.hasResponse
    /\ response.error.status = 401

\* The transport resolved with status 200.
Is200(response) == response.kind = "resolved" /\ response.status = 200

\* The error the catch block of 144 catches for a failed dispatch.
CaughtError(response) ==
    IF response.kind = "rejected" THEN response.error
    ELSE NewError(IF response.errorMessage \in {Undefined, ""}
                  THEN MsgRequestFailed ELSE response.errorMessage)

\* The refresh collaborator resolved {success: true, data: a token}.
RefreshSucceeded(newToken) ==
    newToken.kind = "resolved" /\ newToken.truthy /\ newToken.success

IsSuccess(outcome) == outcome.kind = "resolved" /\ outcome.success
IsFailureEnvelope(outcome) == outcome.kind = "resolved" /\ ~outcome.success
IsRejection(outcome) == outcome.kind = "rejected"

\* The item holds a token whose stamps satisfy the two conditions at time t.
HoldsToken(item) == item # NoItem
AccessPast(item, t) == HoldsToken(item) /\ t > item[2].accessExpiredAt
RefreshPast(item, t) == HoldsToken(item) /\ t > item[2].refreshExpiredAt

\* Generic failure reporting of error under args, the notifier having shown
\* `shown` before: the messages shown after it, and the outcome.
GenericShown(shown, args, error) ==
    IF args.silentError THEN shown
    ELSE Append(shown, IF error.serverMessage \in {Undefined, ""}
                       THEN MsgRequestFailed ELSE error.serverMessage)
GenericOutcome(args, error) ==
    IF args.throwError THEN [kind |-> "rejected", error |-> error]
    ELSE [kind |-> "resolved", success |-> FALSE, errorCode |-> error.code,
          errorMessage |-> error.message]

-----------------------------------------------------------------------------
(* C1 *)

C1_RetryStep(c) ==
    (RefreshSettled(c) /\ RefreshSucceeded(calls'[c].newToken)) =>
        LET newToken == calls'[c].newToken.data
        IN  /\ store' = <<"json", newToken>>
            /\ calls'[c].pc = "axios"
            /\ calls'[c].dispatches = calls[c].dispatches + 1
            /\ calls'[c].args = calls[c].args
            /\ calls'[c].requestUrl = calls[c].requestUrl
            /\ calls'[c].headers = [Authorization |-> <<"Bearer", newToken.access>>]
            /\ calls'[c].outcome = Pending
            /\ calls'[c].shown = calls[c].shown

C1_RetryOutcome(c) ==
    (calls[c].pc = "done" /\ calls[c].dispatches >= 2) =>
        LET response == calls[c].response
        IN  /\ Is200(response) => calls[c].outcome = Success(response.data)
            /\ (~Is200(response) /\ ~Is401(response)) =>
                  calls[c].outcome = GenericOutcome(calls[c].args, CaughtError(response))

\* C1: when the 401 handling of a call found a token with expired access and
\* non-expired refresh (the call awaits refreshToken) and the refresh
\* collaborator resolves {success: true, data: newToken}, that step persists
\* newToken and issues exactly one more dispatch of the same descriptor
\* carrying newToken.access as bearer credential, nothing being reported yet;
\* and the outcome of a retried call is the outcome its last dispatch
\* produces by itself.
C1_RefreshThenRetry ==
    /\ [][\A c \in Calls : C1_RetryStep(c)]_vars
    /\ [](\A c \in Calls : C1_RetryOutcome(c))

\* C1: a call was retried once with the new token and its retry got a 200.
C1_Witness ==
    /\ calls["A"].pc = "done"
    /\ calls["A"].dispatches = 2
    /\ calls["A"].refreshes = 1
    /\ RefreshSucceeded(calls["A"].newToken)
    /\ calls["A"].headers = [Authorization |-> <<"Bearer", <<"access", 1>> >>]
    /\ store = <<"json", calls["A"].newToken.data>>
    /\ IsSuccess(calls["A"].outcome)

-----------------------------------------------------------------------------
(* C2 *)

C2_Step(c) ==
    (/\ AxiosSettled(c)
     /\ Is401(calls'[c].response)
     /\ ~calls[c].args.ignoreAuth
     /\ AccessPast(store, now)
     /\ RefreshPast(store, now)) =>
        /\ store' = NoItem
        /\ calls'[c].refreshes = calls[c].refreshes
        /\ calls'[c].dispatches = calls[c].dispatches
        /\ calls'[c].pc = "done"
        /\ calls'[c].shown =
              IF calls[c].args.silentError THEN calls[c].shown
              ELSE Append(calls[c].shown, ToastRefreshExpired)
        /\ IF calls[c].args.throwError
           THEN IsRejection(calls'[c].outcome)
           ELSE calls'[c].outcome =
                   [kind |-> "resolved", success |-> FALSE, errorCode |-> "401",
                    errorMessage |-> MsgRefreshExpired]

\* C2: when a dispatch with ignoreAuth=false is rejected with status 401 and
\* the stored token has accessExpiredAt and refreshExpiredAt both in the past,
\* the handling clears the store, invokes no refresh, dispatches no retry,
\* shows the fixed 'refresh token expired' message exactly once unless
\* silentError, and ends the call: rejected with throwError, otherwise
\* resolved with {success:false, errorCode:401, the fixed message}.
C2_RefreshTokenExpired == [][\A c \in Calls : C2_Step(c)]_vars

\* C2: a call with silentError=false and throwError=true ended this way.
C2_Witness ==
    /\ calls["A"].pc = "done"
    /\ Is401(calls["A"].response)
    /\ ~calls["A"].args.ignoreAuth
    /\ ~calls["A"].args.silentError
    /\ calls["A"].args.throwError
    /\ calls["A"].currentToken # EmptyObj
    /\ now > calls["A"].currentToken.accessExpiredAt
    /\ now > calls["A"].currentToken.refreshExpiredAt
    /\ calls["A"].shown = <<ToastRefreshExpired>>
    /\ IsRejection(calls["A"].outcome)
    /\ calls["A"].outcome.error.message = MsgRefreshExpired
    /\ store = NoItem
    /\ calls["A"].refreshes = 0
    /\ calls["A"].dispatches = 1

-----------------------------------------------------------------------------
(* C3 *)

C3_Step(c) ==
    (RefreshSettled(c) /\ ~RefreshSucceeded(calls'[c].newToken)) =>
        /\ store' = NoItem
        /\ calls'[c].dispatches = calls[c].dispatches
        /\ calls'[c].pc = "done"
        /\ IF calls[c].args.throwError
           THEN IsRejection(calls'[c].outcome)
           ELSE calls'[c].outcome =
                   [kind |-> "resolved", success |-> FALSE, errorCode |-> "401",
                    errorMessage |-> MsgRefreshFailed]

\* C3: whenever a refresh attempt yields no new token (the refresh
\* collaborator rejects, or resolves with success=false), the stored token is
\* deleted, no retry is dispatched and the call reports 'refresh failed':
\* rejected with throwError, otherwise {success:false, errorCode:401, the
\* fixed message}.
C3_RefreshFailed == [][\A c \in Calls : C3_Step(c)]_vars

-----------------------------------------------------------------------------
(* C4 *)

C4_Step(c) ==
    (/\ AxiosSettled(c)
     /\ Is401(calls'[c].response)
     /\ ~calls[c].args.ignoreAuth
     /\ \/ ~HoldsToken(store)
        \/ /\ HoldsToken(store)
           /\ now <= store[2].accessExpiredAt
           /\ now <= store[2].refreshExpiredAt) =>
        LET error == calls'[c].response.error
        IN  /\ calls'[c].refreshes = calls[c].refreshes
            /\ store' = store
            /\ calls'[c].dispatches = calls[c].dispatches
            /\ calls'[c].pc = "done"
            /\ calls'[c].shown = GenericShown(calls[c].shown, calls[c].args, error)
            /\ calls'[c].outcome = GenericOutcome(calls[c].args, error)

\* C4: when a dispatch with ignoreAuth=false is rejected with status 401 and
\* the store holds no token, or a token with now <= accessExpiredAt and
\* now <= refreshExpiredAt, the handling invokes no refresh, leaves the store
\* unchanged, dispatches no retry and ends the call in generic failure
\* reporting.
C4_NoRefreshWithoutExpiry == [][\A c \in Calls : C4_Step(c)]_vars

\* C4: a 401 was handled at the very instant the stored token's stamps name
\* (now = accessExpiredAt = refreshExpiredAt) and passed through.
C4_Witness ==
    /\ calls["A"].pc = "done"
    /\ Is401(calls["A"].response)
    /\ ~calls["A"].args.ignoreAuth
    /\ HoldsToken(store)
    /\ now = 1
    /\ store[2].accessExpiredAt = 1
    /\ store[2].refreshExpiredAt = 1
    /\ calls["A"].refreshes = 0
    /\ calls["A"].dispatches = 1
    /\ calls["A"].shown = <<MsgRequestFailed>>
    /\ IsFailureEnvelope(calls["A"].outcome)
    /\ calls["A"].outcome.errorCode = "ERR_BAD_REQUEST"

-----------------------------------------------------------------------------
(* C5 *)

C5_State(c) ==
    (calls[c].pc # "idle" /\ calls[c].args.ignoreAuth) =>
        /\ "Authorization" \notin DOMAIN calls[c].headers
        /\ calls[c].refreshes = 0
        /\ calls[c].dispatches = 1
        /\ calls[c].pc \in {"axios", "done"}

C5_Step(c) ==
    (calls'[c] # calls[c] /\ calls'[c].args.ignoreAuth) => store' = store

\* C5: a call with ignoreAuth=true, whatever the store holds and whatever the
\* transport produces (401 included), dispatches once with no Authorization
\* header, never invokes the refresh collaborator, never retries, and none of
\* its steps writes or deletes the stored token.
C5_IgnoreAuth ==
    /\ [](\A c \in Calls : C5_State(c))
    /\ [][\A c \in Calls : C5_Step(c)]_vars

\* C5: a call with ignoreAuth=true got a 401 while the store held a token with
\* expired access and valid refresh, and ended with the store as it was.
C5_Witness ==
    /\ calls["A"].pc = "done"
    /\ calls["A"].args.ignoreAuth
    /\ Is401(calls["A"].response)
    /\ AccessPast(store, now)
    /\ ~RefreshPast(store, now)
    /\ calls["A"].headers = EmptyObj

-----------------------------------------------------------------------------
(* C6 *)

\* C6: with ignoreAuth=false a dispatch carries an Authorization header if
\* and only if the store held a token record when the call read it (the
\* local token of line 116 is {} exactly when the item is absent); with an
\* empty store the dispatch carries no Authorization header.
C6_HeaderIffToken ==
    \A c \in Calls :
        (calls[c].pc # "idle" /\ ~calls[c].args.ignoreAuth) =>
            (("Authorization" \in DOMAIN calls[c].headers)
                <=> (calls[c].token # EmptyObj))

-----------------------------------------------------------------------------
(* C7 *)

C7_State(c) ==
    /\ (calls[c].pc = "done") <=> (calls[c].outcome # Pending)
    /\ calls[c].pc = "done" =>
          /\ calls[c].outcome.kind \in {"resolved", "rejected"}
          /\ ~Is200(calls[c].response) =>
                IF calls[c].args.throwError
                THEN IsRejection(calls[c].outcome)
                ELSE IsFailureEnvelope(calls[c].outcome)

C7_Step(c) == calls[c].outcome # Pending => calls'[c].outcome = calls[c].outcome

\* C7: a call has an outcome exactly when it has reached its terminal state,
\* and the outcome never changes afterwards; whenever the final dispatch
\* failed (transport error, non-200 response, 401 pass-through, refresh token
\* expired, refresh failed, failure of a retried dispatch) the promise is
\* rejected if throwError is set and otherwise resolved with a {success:false}
\* envelope, never with a success envelope.
C7_OneOutcomeByThrowError ==
    /\ [](\A c \in Calls : C7_State(c))
    /\ [][\A c \in Calls : C7_Step(c)]_vars

\* C7: a retried dispatch failed with a network error and throwError set: the
\* call is rejected with that error.
C7_Witness ==
    /\ calls["A"].pc = "done"
    /\ calls["A"].dispatches = 2
    /\ calls["A"].args.throwError
    /\ calls["A"].response = [kind |-> "rejected", error |-> NetworkError]
    /\ calls["A"].outcome = [kind |-> "rejected", error |-> NetworkError]

-----------------------------------------------------------------------------
(* C8 *)

C8_State(c) ==
    Len(calls[c].shown) =
        IF /\ calls[c].pc = "done"
           /\ ~IsSuccess(calls[c].outcome)
           /\ ~calls[c].args.silentError
        THEN 1 ELSE 0

\* C8: over one top-level call, its refreshes and retries included, the
\* notifier is invoked exactly once if the call has ended in failure and
\* silentError is false, and not at all otherwise (the call is under way, it
\* ended in success, or silentError is true), whatever throwError and the
\* failure kind are.
C8_NotifyBySilentError == \A c \in Calls : C8_State(c)

\* C8: a call with silentError=false and throwError=true ended after a
\* refresh, a retry and a further refresh that resolved success=false, and
\* showed one message.
C8_Witness ==
    /\ calls["A"].pc = "done"
    /\ ~calls["A"].args.silentError
    /\ calls["A"].args.throwError
    /\ calls["A"].dispatches = 2
    /\ calls["A"].refreshes = 2
    /\ ~RefreshSucceeded(calls["A"].newToken)
    /\ IsRejection(calls["A"].outcome)
    /\ Len(calls["A"].shown) = 1

-----------------------------------------------------------------------------
(* C9 *)

C9_Step(c) ==
    AxiosSettled(c) =>
        LET response == calls'[c].response
        IN  /\ IsSuccess(calls'[c].outcome) <=> Is200(response)
            /\ Is200(response) =>
                  /\ calls'[c].outcome =
                        [kind |-> "resolved", success |-> TRUE, data |-> response.data]
                  /\ calls'[c].shown = calls[c].shown
                  /\ store' = store
            /\ (response.kind = "resolved" /\ response.status # 200) =>
                  /\ calls'[c].pc = "done"
                  /\ IsRejection(calls'[c].outcome)
                        \/ IsFailureEnvelope(calls'[c].outcome)

\* C9: the handling of a transport result yields a success envelope if and
\* only if the transport resolved with status 200; the envelope then carries
\* the body's data field unchanged, the notifier is not called and the store
\* is not modified; a response resolved with another status ends the call in
\* a failure outcome.
C9_SuccessIff200 == [][\A c \in Calls : C9_Step(c)]_vars

\* C9: a call ended in failure on a resolved 204 response.
C9_Witness ==
    /\ calls["A"].pc = "done"
    /\ calls["A"].response.kind = "resolved"
    /\ calls["A"].response.status = 204
    /\ IsFailureEnvelope(calls["A"].outcome)
    /\ calls["A"].outcome.errorMessage = "no content"

-----------------------------------------------------------------------------
(* C10 *)

\* The value entry list pv maps the name to, or the placeholder itself.
RECURSIVE OwnValue(_, _, _)
OwnValue(name, pv, k) ==
    IF k > Len(pv) THEN <<":">> \o name
    ELSE IF pv[k][1] = name THEN pv[k][2]
    ELSE OwnValue(name, pv, k + 1)

\* The template s from index i on, each placeholder replaced with the value
\* of its own name.
RECURSIVE EachWithOwnValue(_, _, _)
EachWithOwnValue(s, i, pv) ==
    IF i > Len(s) THEN << >>
    ELSE IF s[i] = ":" /\ IdRun(s, i + 1) > 0
         THEN OwnValue(SubSeq(s, i + 1, i + IdRun(s, i + 1)), pv, 1)
                 \o EachWithOwnValue(s, i + 1 + IdRun(s, i + 1), pv)
         ELSE <<s[i]>> \o EachWithOwnValue(s, i + 1, pv)

\* The names of the placeholders of s from index i on.
RECURSIVE PlaceholderNames(_, _)
PlaceholderNames(s, i) ==
    IF i > Len(s) THEN {}
    ELSE IF s[i] = ":" /\ IdRun(s, i + 1) > 0
         THEN {SubSeq(s, i + 1, i + IdRun(s, i + 1))}
                 \cup PlaceholderNames(s, i + 1 + IdRun(s, i + 1))
         ELSE PlaceholderNames(s, i + 1)

MappedNames(pv) == {pv[k][1] : k \in 1..Len(pv)}

\* C10: for every template and every map of one or more entries that maps
\* the template's placeholders, replacePathVariables returns the template
\* with each placeholder replaced with the value of its own name
\* ('/:a/:b' with {a:'1', b:'2'} gives '/1/2').
C10_EachPlaceholderOwnValue ==
    (/\ ppc = "returned"
     /\ Len(pathVariables) >= 1
     /\ PlaceholderNames(url, 1) \subseteq MappedNames(pathVariables)) =>
        requestUrl = EachWithOwnValue(url, 1, pathVariables)

-----------------------------------------------------------------------------
(* C11 *)

\* The maps with the keys of pv, whatever their values.
SameKeys(pv) == {m \in PathMaps : MappedNames(m) = MappedNames(pv)}

\* C11: replacePathVariables leaves literal every placeholder whose name is
\* not a key of the map, whatever the placeholders of the map's keys are
\* replaced with, and so a template without placeholders is returned
\* unchanged: the result is the template with each placeholder of a mapped
\* name replaced with some value and every other character kept.
C11_UnmappedStayLiteral ==
    ppc = "returned" =>
        \E m \in SameKeys(pathVariables) : requestUrl = EachWithOwnValue(url, 1, m)

\* C11, second half alone: a template without placeholders is returned
\* unchanged whatever the map holds.
C11_NoPlaceholderUnchanged ==
    (ppc = "returned" /\ PlaceholderNames(url, 1) = {}) => requestUrl = url

-----------------------------------------------------------------------------
(* C12 *)

\* C12: every request call that was made eventually reaches its terminal
\* state (its promise resolves or rejects), every transport call and every
\* refresh call completing in the end.
C12_Terminates ==
    \A c \in Calls : (calls[c].pc # "idle") ~> (calls[c].pc = "done")

-----------------------------------------------------------------------------
(* C13 *)

\* C13 as claimed: with the calls in flight together while the store holds a
\* token with expired access and valid refresh, every call whose dispatch is
\* rejected with 401 (its own token's refresh still not expired) invokes the
\* refresh collaborator, in every interleaving, and so where every refresh
\* that completed has succeeded: no call ends on its first 401 without a
\* refresh call.
C13_EveryCallRefreshes ==
    \A c \in Calls :
        (/\ calls[c].pc = "done"
         /\ calls[c].dispatches = 1
         /\ Is401(calls[c].response)
         /\ now <= calls[c].token.refreshExpiredAt
         /\ \A d \in Calls :
               calls[d].newToken = Pending \/ RefreshSucceeded(calls[d].newToken)) =>
            calls[c].refreshes = 1

C13_HandlingStep(c) ==
    (/\ AxiosSettled(c)
     /\ Is401(calls'[c].response)
     /\ ~calls[c].args.ignoreAuth
     /\ AccessPast(store, now)
     /\ ~RefreshPast(store, now)) =>
        /\ calls'[c].pc = "refresh"
        /\ calls'[c].refreshes = calls[c].refreshes + 1
        /\ store' = store

C13_OverwriteStep(c) ==
    (RefreshSettled(c) /\ RefreshSucceeded(calls'[c].newToken)) =>
        store' = <<"json", calls'[c].newToken.data>>

\* No refresh has completed, the store still holds a token whose refresh is
\* not expired, and every call's dispatch was rejected with 401.
C13_AllHandledFirst ==
    /\ \A c \in Calls : calls[c].newToken = Pending
    /\ HoldsToken(store) /\ ~RefreshPast(store, now)
    /\ \A c \in Calls : calls[c].pc \notin {"idle", "axios"} /\ Is401(calls[c].response)

\* C13: with the calls in flight together, a call invokes the refresh
\* collaborator when its 401 is handled while the store holds a token with
\* expired access and valid refresh, whatever the other calls do (so all N
\* calls do when every 401 is handled before any refresh completes: N refresh
\* calls), and every refresh that succeeds overwrites the store with its own
\* token, so that the store holds the token of the last refresh to complete.
C13_RefreshPerHandling ==
    /\ [][\A c \in Calls : C13_HandlingStep(c) /\ C13_OverwriteStep(c)]_vars
    /\ [](C13_AllHandledFirst =>
            \A c \in Calls : calls[c].pc = "refresh" /\ calls[c].refreshes = 1)

\* C13: both calls refreshed, A's refresh completing first: two refresh
\* calls, two overwrites, the store holding B's token.
C13_Witness ==
    /\ \A c \in Calls : calls[c].refreshes = 1 /\ calls[c].dispatches = 2
    /\ calls["A"].refreshArg = <<"refresh", 0>>
    /\ calls["B"].refreshArg = <<"refresh", 0>>
    /\ calls["A"].newToken.data.access = <<"access", 1>>
    /\ calls["B"].newToken.data.access = <<"access", 2>>
    /\ calls["A"].headers = [Authorization |-> <<"Bearer", <<"access", 1>> >>]
    /\ store = <<"json", calls["B"].newToken.data>>

-----------------------------------------------------------------------------
(* C14 *)

\* Call c calls refreshToken in this step.
RefreshCalled(c) == calls[c].pc # "refresh" /\ calls'[c].pc = "refresh"

C14_Step(c) ==
    RefreshCalled(c) =>
        /\ AxiosSettled(c)
        /\ calls[c].dispatches >= 1
        /\ Is401(calls'[c].response)
        /\ ~calls[c].args.ignoreAuth
        /\ HoldsToken(store)
        /\ calls'[c].refreshArg = store[2].refresh
        /\ now > store[2].accessExpiredAt \/ now > store[2].refreshExpiredAt
        /\ ~(now > store[2].refreshExpiredAt)
        /\ calls'[c].refreshes = calls[c].refreshes + 1

C14_State(c) ==
    /\ calls[c].refreshes > 0 => calls[c].dispatches >= 1
    /\ (calls[c].pc = "axios" /\ calls[c].dispatches = 1) => calls[c].refreshes = 0
    /\ calls[c].pc = "refresh" => Is401(calls[c].response)
    /\ calls[c].refreshes = 0 => calls[c].refreshArg = UndefinedText

\* C14: the refresh collaborator is called only by the handling of a
\* dispatch of the same call that was rejected with status 401 (so never
\* before the call's first dispatch), with the refresh value of the token
\* that is in the store at that moment, and only if that token is expired by
\* isTokenExpired and its refresh stamp is not past.
C14_RefreshOnlyFrom401 ==
    /\ [][\A c \in Calls : C14_Step(c)]_vars
    /\ [](\A c \in Calls : C14_State(c))

\* C14: a call sent token 0, and when its 401 was handled the store held
\* another token, with expired access: it refreshes with that token's value.
C14_Witness ==
    \E c \in Calls :
        /\ calls[c].pc = "refresh"
        /\ calls[c].dispatches = 1
        /\ calls[c].token.refresh = <<"refresh", 0>>
        /\ calls[c].refreshArg = <<"refresh", 1>>
        /\ calls[c].currentToken.access = <<"access", 1>>

-----------------------------------------------------------------------------
(* C15 *)

\* Call c issues a dispatch in this step: its first, or a retry.
Dispatched(c) == calls[c].pc # "axios" /\ calls'[c].pc = "axios"

C15_Step(c) ==
    (/\ Dispatched(c)
     /\ ~calls'[c].args.ignoreAuth
     /\ HoldsToken(store')) =>
        /\ calls'[c].token = store'[2]
        /\ calls'[c].headers = [Authorization |-> <<"Bearer", store'[2].access>>]

\* C15: every dispatch with ignoreAuth=false, the first of a call or a retry,
\* of a call running alone or beside another, carries as bearer credential
\* the access value of the token that is in the store at the instant the
\* dispatch is issued: the token is read anew for each dispatch.
C15_BearerIsStoredToken == [][\A c \in Calls : C15_Step(c)]_vars

\* C15: A was dispatched with token 0; B's refresh then stored token 1 and
\* A's own refresh token 2: A's retry carries token 2, B's retry token 1.
C15_Witness ==
    /\ calls["A"].pc = "axios"
    /\ calls["A"].dispatches = 2
    /\ calls["B"].dispatches = 2
    /\ calls["B"].headers = [Authorization |-> <<"Bearer", <<"access", 1>> >>]
    /\ calls["A"].headers = [Authorization |-> <<"Bearer", <<"access", 2>> >>]
    /\ store = <<"json", calls["A"].token>>

-----------------------------------------------------------------------------
(* C16 *)

\* The failure outcome of the 'refresh token expired' path.
IsRefreshExpiredFailure(outcome) ==
    \/ IsRejection(outcome) /\ outcome.error.message = MsgRefreshExpired
    \/ IsFailureEnvelope(outcome) /\ outcome.errorMessage = MsgRefreshExpired

\* The failure outcome of the 'refresh failed' path.
IsRefreshFailedFailure(outcome) ==
    \/ IsRejection(outcome) /\ outcome.error.message = "refresh rejected"
    \/ IsFailureEnvelope(outcome) /\ outcome.errorMessage = MsgRefreshFailed

\* A dispatch that ends in status 200, in a transport error without
\* response, or in an error status other than 401 ends the call with the
\* store and the count of refresh calls as they were.
C16_Not401Step(c) ==
    (AxiosSettled(c) /\ ~Is401(calls'[c].response)) =>
        /\ store' = store
        /\ calls'[c].refreshes = calls[c].refreshes
        /\ calls'[c].pc = "done"

\* The store changes only in the three steps of the refresh paths.
C16_StoreStep ==
    store' # store =>
        \E c \in Calls :
            \/ /\ AxiosSettled(c)
               /\ Is401(calls'[c].response)
               /\ ~calls[c].args.ignoreAuth
               /\ RefreshPast(store, now)
               /\ store' = NoItem
               /\ IsRefreshExpiredFailure(calls'[c].outcome)
            \/ /\ RefreshSettled(c)
               /\ calls'[c].newToken.kind = "rejected"
               /\ store' = NoItem
               /\ IsRefreshFailedFailure(calls'[c].outcome)
            \/ /\ RefreshSettled(c)
               /\ RefreshSucceeded(calls'[c].newToken)
               /\ store' = <<"json", calls'[c].newToken.data>>

\* C16: request modifies the token store only on the refresh paths: the
\* handling of a dispatch that ended in status 200, in a transport error
\* without response or in an error status other than 401 neither sets nor
\* deletes the stored token nor calls the refresh collaborator, whatever the
\* token's stamps; the token is set only by a refresh that succeeded and
\* deleted only by the two terminal failures 'refresh token expired' and
\* 'refresh failed'.
C16_StoreOnlyOnRefreshPaths ==
    [][C16_StoreStep /\ \A c \in Calls : C16_Not401Step(c)]_vars

\* C16: a call ended on a 500 while the stored token's stamps were both past:
\* no refresh call, the token still stored.
C16_Witness ==
    /\ calls["A"].pc = "done"
    /\ calls["A"].response.kind = "rejected"
    /\ calls["A"].response.error.status = 500
    /\ ~calls["A"].args.ignoreAuth
    /\ AccessPast(store, now)
    /\ RefreshPast(store, now)
    /\ calls["A"].refreshes = 0
    /\ calls["A"].newToken = Pending

-----------------------------------------------------------------------------
(* C17 *)

\* Call d's refresh succeeded and the token it stored is the one in the store.
StoredByRefreshOf(d) ==
    /\ RefreshSucceeded(calls[d].newToken)
    /\ store = <<"json", calls[d].newToken.data>>

\* Call c was dispatched with a token whose access stamp is past, and the
\* store now holds a token, stored by another call's refresh, that neither
\* stamp makes expired.
C17_StaleCredential(c) ==
    /\ calls[c].token # EmptyObj
    /\ now > calls[c].token.accessExpiredAt
    /\ \E d \in Calls \ {c} : StoredByRefreshOf(d)
    /\ store # <<"json", calls[c].token>>
    /\ ~isTokenExpired(getToken(store), now)

C17_Step(c) ==
    (/\ AxiosSettled(c)
     /\ Is401(calls'[c].response)
     /\ ~calls[c].args.ignoreAuth
     /\ C17_StaleCredential(c)) =>
        /\ calls'[c].refreshes = calls[c].refreshes
        /\ calls'[c].dispatches = calls[c].dispatches
        /\ calls'[c].pc = "done"
        /\ calls'[c].currentToken = getToken(store)
        /\ calls'[c].shown =
              GenericShown(calls[c].shown, calls[c].args, calls'[c].response.error)
        /\ calls'[c].outcome =
              GenericOutcome(calls[c].args, calls'[c].response.error)
        /\ store' = store

\* C17: the refresh decision is taken on the token in the store when the 401
\* is handled, not on the token that was sent: a call dispatched with an
\* access-expired token whose 401 arrives after a concurrent call's refresh
\* has stored a non-expired token invokes no refresh, dispatches no retry and
\* ends in generic failure, the notifier being called unless silentError.
C17_DecisionOnStoredToken == [][\A c \in Calls : C17_Step(c)]_vars

\* C17: B was sent with the initial token, A's refresh stored a token that is
\* not expired, and B's 401 ended B with one message shown, without refresh
\* or retry.
C17_Witness ==
    /\ calls["B"].pc = "done"
    /\ Is401(calls["B"].response)
    /\ calls["B"].token # EmptyObj
    /\ calls["B"].token.access = <<"access", 0>>
    /\ now > calls["B"].token.accessExpiredAt
    /\ StoredByRefreshOf("A")
    /\ calls["B"].currentToken = calls["A"].newToken.data
    /\ ~isTokenExpired(calls["B"].currentToken, now)
    /\ calls["B"].refreshes = 0
    /\ calls["B"].dispatches = 1
    /\ ~calls["B"].args.silentError
    /\ Len(calls["B"].shown) = 1
    /\ IsFailureEnvelope(calls["B"].outcome)

-----------------------------------------------------------------------------
(* C18 *)

\* Call c's refresh rejects in this step.
RefreshRejected(c) ==
    RefreshSettled(c) /\ calls'[c].newToken.kind = "rejected"

\* The rejection empties the store whatever it held, ends c in the 'refresh
\* failed' failure and leaves every other call as it was.
C18_DeleteStep(c) ==
    RefreshRejected(c) =>
        /\ store' = NoItem
        /\ getToken(store') = EmptyObj
        /\ calls'[c].pc = "done"
        /\ IsRefreshFailedFailure(calls'[c].outcome)
        /\ \A d \in Calls \ {c} : calls'[d] = calls[d]

\* A dispatch made while the store is empty finds no token.
C18_LaterStep(c) ==
    (Dispatched(c) /\ ~HoldsToken(store')) => calls'[c].token = EmptyObj

\* C18: deletion on a terminal auth failure is unconditional on the store's
\* current content: when a call's refresh rejects after a concurrent call's
\* refresh has stored a new non-expired token, deleteToken removes that
\* token, so the store ends empty; the other call's retry, already issued,
\* is left as it was, and calls dispatched later find no token.
C18_DeleteWhateverStored ==
    [][\A c \in Calls : C18_DeleteStep(c) /\ C18_LaterStep(c)]_vars

\* C18: A and B both called refresh with the old refresh value; B's refresh
\* stored a non-expired token and B's retry is in flight with it; A's refresh
\* then rejected and the store is empty.
C18_Witness ==
    /\ store = NoItem
    /\ calls["A"].pc = "done"
    /\ calls["A"].newToken.kind = "rejected"
    /\ calls["A"].refreshArg = <<"refresh", 0>>
    /\ calls["B"].refreshArg = <<"refresh", 0>>
    /\ calls["B"].pc = "axios"
    /\ calls["B"].dispatches = 2
    /\ RefreshSucceeded(calls["B"].newToken)
    /\ ~isTokenExpired(calls["B"].newToken.data, now)
    /\ calls["B"].token = calls["B"].newToken.data
    /\ calls["B"].headers =
          [Authorization |-> <<"Bearer", calls["B"].newToken.data.access>>]

====
